---------------------------- MODULE Spec2Model ----------------------------
(***************************************************************************)
(* Model of the ray-casting and block-placement core of castle_wars        *)
(* (src/src/main.rs): ray_box_intersection, smart_round and the            *)
(* place_block system.                                                     *)
(*                                                                         *)
(* Numbers.  An f32 is modelled as a sign-magnitude fixed-point value      *)
(* [k, s, m]: k is "num", "inf" or "nan", s is the sign (1 or -1) and m    *)
(* the magnitude in ticks of 1/Unit.  Zero is signed, as in IEEE-754, and  *)
(* division by zero yields an infinity or NaN exactly as the hardware      *)
(* does.  All inputs are chosen so that every finite operation is exact    *)
(* in ticks; f32 rounding error itself is outside the model.               *)
(***************************************************************************)
EXTENDS Integers, Sequences, FiniteSets, TLC

\* Fixed-point resolution: ticks per 1.0.  1200 = 2^4 * 3 * 5^2 keeps quarters
\* and the squares, products and quotients of 0.6 and 0.8 exact.
Unit == 16 * 75

\* Larger than every finite magnitude of the model: the rank of an infinity.
Huge == Unit * 1000000

----------------------------------------------------------------------------
\* f32 values

F(n) == [k |-> "num", s |-> IF n < 0 THEN -1 ELSE 1, m |-> IF n < 0 THEN -n ELSE n]

\* n/4 as an f32 (every coordinate of the model is a multiple of 0.25)
Q(n) == F(n * (Unit \div 4))

\* n/5 as an f32 (direction components 0.6 and 0.8)
Fifth(n) == F(n * (Unit \div 5))

Zero == F(0)

NegZero == [k |-> "num", s |-> -1, m |-> 0]

One == F(Unit)

Half == F(Unit \div 2)

Inf(sgn) == [k |-> "inf", s |-> sgn, m |-> 0]

NaN == [k |-> "nan", s |-> 1, m |-> 0]

IsNaN(a) == a.k = "nan"

IsFinite(a) == a.k = "num"

IsZero(a) == a.k = "num" /\ a.m = 0

\* position of a non-NaN value in the order of the extended reals
Ord(a) == IF a.k = "inf" THEN a.s * Huge ELSE a.s * a.m

\* a < b, false when either is NaN
Lt(a, b) == ~IsNaN(a) /\ ~IsNaN(b) /\ Ord(a) < Ord(b)

\* a > b
Gt(a, b) == Lt(b, a)

\* a == b (so that -0.0 == 0.0, and NaN equals nothing)
Eq(a, b) == ~IsNaN(a) /\ ~IsNaN(b) /\ Ord(a) = Ord(b)

Neg(a) == IF IsNaN(a) THEN NaN ELSE [a EXCEPT !.s = -a.s]

Abs(a) == IF IsNaN(a) THEN NaN ELSE [a EXCEPT !.s = 1]

Add(a, b) ==
    IF IsNaN(a) \/ IsNaN(b) THEN NaN
    ELSE IF a.k = "inf" /\ b.k = "inf" THEN (IF a.s = b.s THEN a ELSE NaN)
    ELSE IF a.k = "inf" THEN a
    ELSE IF b.k = "inf" THEN b
    ELSE LET v == a.s * a.m + b.s * b.m
         IN  IF v = 0 THEN (IF a.s = -1 /\ b.s = -1 THEN NegZero ELSE Zero)
             ELSE F(v)

Sub(a, b) == Add(a, Neg(b))

Mul(a, b) ==
    IF IsNaN(a) \/ IsNaN(b) THEN NaN
    ELSE IF a.k = "inf" \/ b.k = "inf"
         THEN (IF IsZero(a) \/ IsZero(b) THEN NaN ELSE Inf(a.s * b.s))
    ELSE [k |-> "num", s |-> a.s * b.s, m |-> (a.m * b.m) \div Unit]

Div(a, b) ==
    IF IsNaN(a) \/ IsNaN(b) THEN NaN
    ELSE IF a.k = "inf" THEN (IF b.k = "inf" THEN NaN ELSE Inf(a.s * b.s))
    ELSE IF b.k = "inf" THEN [k |-> "num", s |-> a.s * b.s, m |-> 0]
    ELSE IF IsZero(b) THEN (IF IsZero(a) THEN NaN ELSE Inf(a.s * b.s))
    ELSE [k |-> "num", s |-> a.s * b.s, m |-> (a.m * Unit) \div b.m]

\* f32::ceil
Ceil(a) ==
    IF ~IsFinite(a) THEN a
    ELSE IF a.s = 1 THEN [a EXCEPT !.m = ((a.m + Unit - 1) \div Unit) * Unit]
    ELSE [a EXCEPT !.m = (a.m \div Unit) * Unit]

\* f32::fract = x - x.trunc()
Fract(a) == IF ~IsFinite(a) THEN NaN ELSE [a EXCEPT !.m = a.m % Unit]

\* the integer square root of n, by bisection of lo..hi
RECURSIVE ISqrt(_, _, _)
ISqrt(n, lo, hi) ==
    IF lo >= hi THEN lo
    ELSE LET mid == (lo + hi + 1) \div 2
         IN  IF mid * mid <= n THEN ISqrt(n, mid, hi) ELSE ISqrt(n, lo, mid - 1)

\* f32::sqrt (exact on the lengths the model takes it of)
Sqrt(a) ==
    IF IsNaN(a) \/ (a.s = -1 /\ ~IsZero(a)) THEN NaN
    ELSE IF a.k = "inf" THEN a
    ELSE F(ISqrt(a.m * Unit, 0, 32 * Unit))

----------------------------------------------------------------------------
\* Vec3

Vec(x, y, z) == [x |-> x, y |-> y, z |-> z]

\* a vector from quarter-unit coordinates
VQ(x, y, z) == Vec(Q(x), Q(y), Q(z))

Splat(a) == Vec(a, a, a)

VAdd(u, v) == Vec(Add(u.x, v.x), Add(u.y, v.y), Add(u.z, v.z))

VSub(u, v) == Vec(Sub(u.x, v.x), Sub(u.y, v.y), Sub(u.z, v.z))

VScale(u, a) == Vec(Mul(u.x, a), Mul(u.y, a), Mul(u.z, a))

VAbs(u) == Vec(Abs(u.x), Abs(u.y), Abs(u.z))

\* Vec3::normalize: self * (1 / length)
Normalize(u) ==
    LET len == Sqrt(Add(Add(Mul(u.x, u.x), Mul(u.y, u.y)), Mul(u.z, u.z)))
    IN  VScale(u, Div(One, len))

Axes == {"x", "y", "z"}

----------------------------------------------------------------------------
\* ray_box_intersection

\* EPSILON = 0.0001 = 1 / EpsilonInv
EpsilonInv == 10000

\* a < EPSILON (EPSILON is below one tick, so the comparison is cross-multiplied)
LtEpsilon(a) ==
    /\ ~IsNaN(a)
    /\ IF a.k = "inf" THEN a.s = -1 ELSE a.s * a.m * EpsilonInv < Unit

None == [some |-> FALSE, t |-> Zero, normal |-> Splat(Zero)]

Some(t, normal) == [some |-> TRUE, t |-> t, normal |-> normal]

\* the pair (t at the min plane, t at the max plane) of one axis, swapped into
\* order when the first is greater
Slab(lo, hi, o, d) ==
    LET t1 == Div(Sub(lo, o), d)
        t2 == Div(Sub(hi, o), d)
    IN  IF Gt(t1, t2) THEN <<t2, t1>> ELSE <<t1, t2>>

\* the running interval [tmin, tmax] misses the slab [amin, amax]
Misses(tmin, tmax, amin, amax) == Gt(tmin, amax) \/ Gt(amin, tmax)

\* if tymin > tmin { tmin = tymin }
TightenMin(tmin, amin) == IF Gt(amin, tmin) THEN amin ELSE tmin

\* if tymax < tmax { tmax = tymax }
TightenMax(tmax, amax) == IF Lt(amax, tmax) THEN amax ELSE tmax

\* if tmin < 0.0 { return None }
BehindOriginFlipped(tmin) == Gt(tmin, Zero)

BehindOrigin(tmin) == Lt(tmin, Zero)

\* (relative_pos.a - half_size.a).abs() < EPSILON
OnFace(rel, half) == LtEpsilon(Abs(Sub(rel, half)))

\* if hit_point.a > center.a { 1.0 } else { -1.0 }
FaceSignFlipped(h, c) == IF Lt(h, c) THEN One ELSE Neg(One)

FaceSign(h, c) == IF Gt(h, c) THEN One ELSE Neg(One)

\* the face normal: the first of x, y whose face the hit point is on, else z
FaceNormal(hit_point, center, half_size) ==
    LET relative_pos == VAbs(VSub(hit_point, center))
    IN  IF OnFace(relative_pos.x, half_size.x)
        THEN Vec(FaceSign(hit_point.x, center.x), Zero, Zero)
        ELSE IF OnFace(relative_pos.y, half_size.y)
        THEN Vec(Zero, FaceSign(hit_point.y, center.y), Zero)
        ELSE Vec(Zero, Zero, FaceSign(hit_point.z, center.z))

ray_box_intersection(ray_origin, ray_direction, box_min, box_max) ==
    LET sx == Slab(box_min.x, box_max.x, ray_origin.x, ray_direction.x)
        sy == Slab(box_min.y, box_max.y, ray_origin.y, ray_direction.y)
        sz == Slab(box_min.z, box_max.z, ray_origin.z, ray_direction.z)
        tmin1 == TightenMin(sx[1], sy[1])
        tmax1 == TightenMax(sx[2], sy[2])
        tmin2 == TightenMin(tmin1, sz[1])
        hit_point == VAdd(ray_origin, VScale(ray_direction, tmin2))
        center == VScale(VAdd(box_min, box_max), Half)
        half_size == VScale(VSub(box_max, box_min), Half)
    IN  IF Misses(sx[1], sx[2], sy[1], sy[2]) THEN None
        ELSE IF Misses(tmin1, tmax1, sz[1], sz[2]) THEN None
        ELSE IF BehindOrigin(tmin2) THEN None
        ELSE Some(tmin2, FaceNormal(hit_point, center, half_size))

----------------------------------------------------------------------------
\* The world: the entities that carry a Transform, in the order the block
\* query of place_block iterates them

VARIABLES
    blocks,     \* the light and the cubes: records [id, name, pos], in query order
    nextId,     \* the id the next spawned entity gets
    mouse,      \* ButtonInput<MouseButton>: [pressed, just_pressed]
    phase,      \* "input": the frame's input update is next; "update": place_block is
    last,       \* what the latest run of place_block saw and decided
    q,          \* ray_box_intersection called on its own: the arguments
    res         \* ... and the result, or Pending

vars == <<blocks, nextId, mouse, phase, last, q, res>>

\* The world is CHUNK_SIZE = 64 wide in the source; the model builds a smaller one.
CHUNK_SIZE == 2

CHUNK_SIZE_HALF == CHUNK_SIZE \div 2

\* How many cubes place_block may spawn in one behaviour
MaxSpawn == 1

\* How many entities place_block may despawn in one behaviour
MaxDespawn == 1

CameraId == 0

LightId == 1

FirstCubeId == 2

Entity(id, name, pos) == [id |-> id, name |-> name, pos |-> pos]

\* the integer n as an f32 (x as f32)
AsF32(n) == F(n * Unit)

\* Transform::from_xyz(x as f32 * 2.0 + 0.5, 0.5, z as f32 * 2.0 + 0.5)
CubePos(x, z) ==
    Vec(Add(Mul(AsF32(x), AsF32(2)), Half), Half, Add(Mul(AsF32(z), AsF32(2)), Half))

\* Transform::from_xyz(3.0, 8.0, 5.0) of the light
LightPos == Vec(AsF32(3), AsF32(8), AsF32(5))

ChunkWidth == 2 * CHUNK_SIZE_HALF + 1

\* setup: the light, then one cube per (x, z), x in the outer loop
SetupBlocks ==
    <<Entity(LightId, "Light", LightPos)>> \o
    [i \in 1..(ChunkWidth * ChunkWidth) |->
        Entity(FirstCubeId + i - 1, "Cube",
               CubePos(((i - 1) \div ChunkWidth) - CHUNK_SIZE_HALF,
                       ((i - 1) % ChunkWidth) - CHUNK_SIZE_HALF))]

----------------------------------------------------------------------------
\* place_block

Buttons == {"Left", "Right"}

\* mouse_button.just_pressed(b)
JustPressedHeld(m, b) == b \in m.pressed

JustPressed(m, b) == b \in m.just_pressed

\* let max_distance = 10.0
MaxDistance == 10

NoRay == [some |-> FALSE, origin |-> Splat(Zero), direction |-> Splat(Zero)]

Ray(origin, direction) == [some |-> TRUE, origin |-> origin, direction |-> direction]

\* let mut closest_distance = max_distance, and no hit yet
NoHitUnbounded == [found |-> FALSE, distance |-> Inf(1), position |-> Splat(Zero),
                   normal |-> Splat(Zero), entity |-> -1]

NoHit == [found |-> FALSE, distance |-> AsF32(MaxDistance), position |-> Splat(Zero),
          normal |-> Splat(Zero), entity |-> -1]

\* if t < closest_distance
CloserOrEqual(t, closest) == Lt(t, closest) \/ Eq(t, closest)

Closer(t, closest) == Lt(t, closest)

\* one iteration of the loop over block_query: acc holds closest_distance,
\* hit_position, hit_normal and hit_entity
ScanStep(acc, e, ray_origin, ray_direction) ==
    LET min == VSub(e.pos, Splat(Half))
        max == VAdd(e.pos, Splat(Half))
        r == ray_box_intersection(ray_origin, ray_direction, min, max)
    IN  IF r.some /\ Closer(r.t, acc.distance)
        THEN [found |-> TRUE, distance |-> r.t,
              position |-> VAdd(ray_origin, VScale(ray_direction, r.t)),
              normal |-> r.normal, entity |-> e.id]
        ELSE acc

RECURSIVE ScanFrom(_, _, _, _, _)
ScanFrom(acc, ents, i, ray_origin, ray_direction) ==
    IF i > Len(ents) THEN acc
    ELSE ScanFrom(ScanStep(acc, ents[i], ray_origin, ray_direction),
                  ents, i + 1, ray_origin, ray_direction)

\* the loop of place_block over every entity with a Transform
FindNearestHit(ray_origin, ray_direction, ents) ==
    ScanFrom(NoHit, ents, 1, ray_origin, ray_direction)

\* the camera carries a Transform too and is the first entity the query yields;
\* the ray starts at the camera
Scanned(ray, bs) == <<Entity(CameraId, "Camera", ray.origin)>> \o bs

smart_round(x) == IF Eq(Fract(x), Zero) THEN x ELSE Ceil(x)

\* hit_pos_rounded + normal
GridPos(hit_pos, normal) ==
    VAdd(Vec(Sub(smart_round(hit_pos.x), Half),
             Sub(smart_round(hit_pos.y), Half),
             Sub(smart_round(hit_pos.z), Half)), normal)

\* which branch of place_block one run takes
Decision(m, ray, hit) ==
    IF ~JustPressed(m, "Left") /\ ~JustPressed(m, "Right") THEN "idle"
    ELSE IF ~ray.some THEN "no_ray"
    ELSE IF ~hit.found THEN "no_hit"
    ELSE IF JustPressed(m, "Left") THEN "place"
    ELSE "remove"

\* commands.spawn((Name::new("Cube"), ..., Transform::from_translation(grid_pos)))
Spawn(bs, id, grid_pos) == Append(bs, Entity(id, "Cube", grid_pos))

\* commands.entity(entity).despawn(): the light is alone in its table; a cube's
\* row is filled by the last cube of the table
Despawn(bs, id) ==
    LET i == CHOOSE j \in 1..Len(bs) : bs[j].id = id
        n == Len(bs)
    IN  IF bs[i].name = "Light" THEN Tail(bs)
        ELSE [j \in 1..(n - 1) |-> IF j = i THEN bs[n] ELSE bs[j]]

Idle == [ran |-> FALSE, ray |-> NoRay, scanned |-> <<>>, hit |-> NoHit,
         decision |-> "idle", spawned |-> -1]

\* the hit of one run: nothing is scanned on the early returns
HitOf(m, ray, bs) ==
    IF (JustPressed(m, "Left") \/ JustPressed(m, "Right")) /\ ray.some
    THEN FindNearestHit(ray.origin, Normalize(ray.direction), Scanned(ray, bs))
    ELSE NoHit

\* the commands of one run, applied to the block collection
ApplyNoElse(bs, m, hit, id) ==
    LET placed == IF hit.found /\ JustPressed(m, "Left")
                  THEN Spawn(bs, id, GridPos(hit.position, hit.normal)) ELSE bs
    IN  IF hit.found /\ JustPressed(m, "Right") THEN Despawn(placed, hit.entity)
        ELSE placed

Apply(bs, m, hit, id) ==
    IF ~hit.found THEN bs
    ELSE IF JustPressed(m, "Left") THEN Spawn(bs, id, GridPos(hit.position, hit.normal))
    ELSE IF JustPressed(m, "Right") THEN Despawn(bs, hit.entity)
    ELSE bs

\* the rays the camera and cursor hand to place_block
Down == Vec(Zero, Neg(One), Zero)

Rays ==
    { Ray(VQ(2, 12, 2), Down),                          \* onto the top of cube (0.5, 0.5, 0.5)
      Ray(VQ(-2, 2, 2), Vec(One, Zero, Zero)),          \* from the gap onto its -x face
      Ray(VQ(2, 44, 2), Down),                          \* from exactly 10.0 above it
      Ray(VQ(6, 12, 6), Down),                          \* between the cubes
      Ray(VQ(8, 8, 2), Vec(Fifth(-3), Fifth(-4), Zero)),   \* slanted, onto its +x face
      Ray(VQ(2, -8, 2), Vec(Zero, One, Zero)),          \* from below onto its -y face
      Ray(VQ(-6, 12, 2), Vec(NegZero, Neg(One), Zero)), \* onto cube (-1.5, 0.5, 0.5)
      Ray(VQ(12, 40, 20), Down) }                       \* onto the light

Released == [pressed |-> {}, just_pressed |-> {}]

NoQuery == [origin |-> Splat(Zero), direction |-> Splat(Zero),
            box_min |-> Splat(Zero), box_max |-> Splat(Zero)]

Pending == [done |-> FALSE, r |-> None]

Init ==
    /\ blocks = SetupBlocks
    /\ nextId = FirstCubeId + ChunkWidth * ChunkWidth
    /\ mouse = Released
    /\ phase = "input"
    /\ last = Idle
    /\ q = NoQuery
    /\ res = Pending

\* the frame's update of ButtonInput: just_pressed is cleared, then the frame's
\* button events are applied
InputSystem ==
    /\ phase = "input"
    /\ \E ev \in [Buttons -> {"none", "press", "release"}] :
         mouse' = [pressed |-> (mouse.pressed \cup {b \in Buttons : ev[b] = "press"})
                                \ {b \in Buttons : ev[b] = "release"},
                   just_pressed |-> {b \in Buttons : ev[b] = "press" /\ b \notin mouse.pressed}]
    /\ phase' = "update"
    /\ last' = Idle
    /\ UNCHANGED <<blocks, nextId, q, res>>

\* one run of the place_block system with the ray the camera and cursor give
\* (NoRay: no cursor position, or viewport_to_world failed)
PlaceBlock(ray) ==
    /\ phase = "update"
    /\ \E hit \in {HitOf(mouse, ray, blocks)} :
       LET spawns == hit.found /\ JustPressed(mouse, "Left")
       IN  /\ blocks' = Apply(blocks, mouse, hit, nextId)
           /\ nextId' = IF spawns THEN nextId + 1 ELSE nextId
           /\ last' = [ran |-> TRUE, ray |-> ray, scanned |-> blocks, hit |-> hit,
                       decision |-> Decision(mouse, ray, hit),
                       spawned |-> IF spawns THEN nextId ELSE -1]
    /\ nextId' <= FirstCubeId + ChunkWidth * ChunkWidth + MaxSpawn
    /\ nextId' - 1 - Len(blocks') <= MaxDespawn
    /\ phase' = "input"
    /\ UNCHANGED <<mouse, q, res>>

Next ==
    \/ InputSystem
    \/ \E ray \in Rays \cup {NoRay} : PlaceBlock(ray)

Spec == Init /\ [][Next]_vars

----------------------------------------------------------------------------
\* The scan of place_block over block collections of every shape: up to
\* MaxBlocks cubes on cells that touch, in any order, a cell taken twice included

MaxBlocks == 3

Cells == {VQ(2, 2, 2), VQ(6, 2, 2), VQ(2, 6, 2), VQ(2, 2, 6)}

CubeSeqs ==
    UNION {[1..n -> Cells] : n \in 0..MaxBlocks}

ScanRays ==
    { Ray(VQ(2, 12, 2), Down),                           \* down a column of cells
      Ray(VQ(2, 12, 4), Down),                           \* down the plane two cells share
      Ray(VQ(4, 12, 2), Down),                           \* the same, on the x axis
      Ray(VQ(12, 2, 2), Vec(Neg(One), Zero, Zero)),      \* along a row of cells
      Ray(VQ(-8, 2, 2), Vec(One, Zero, Zero)),           \* along it from the other end
      Ray(VQ(8, 8, 2), Vec(Fifth(-3), Fifth(-4), Zero)), \* slanted
      Ray(VQ(2, 2, 48), Vec(Zero, Zero, Neg(One))),      \* from 10.0 and 11.0 away
      Ray(VQ(2, 2, 3), Vec(Zero, One, Zero)) }           \* from inside a cell

InitScan ==
    /\ \E cs \in CubeSeqs :
         /\ blocks = <<Entity(LightId, "Light", LightPos)>> \o
                     [i \in 1..Len(cs) |-> Entity(FirstCubeId + i - 1, "Cube", cs[i])]
         /\ nextId = FirstCubeId + Len(cs)
    /\ \E b \in Buttons : mouse = [pressed |-> {b}, just_pressed |-> {b}]
    /\ phase = "update"
    /\ last = Idle
    /\ q = NoQuery
    /\ res = Pending

NextScan == \E ray \in ScanRays : PlaceBlock(ray)

SpecScan == InitScan /\ [][NextScan]_vars

----------------------------------------------------------------------------
\* ray_box_intersection on its own: every query of a small grid

\* origin coordinates range over -MaxCoord..MaxCoord quarters
MaxCoord == 3

OriginCoords == {Q(c) : c \in (-MaxCoord)..MaxCoord}

DirCoords == {Neg(One), NegZero, Zero, One}

Query(o, d, bmin, bmax) == [origin |-> o, direction |-> d, box_min |-> bmin, box_max |-> bmax]

\* the unit cube centred at the origin, and a box with three different sides
UnitBox == <<VQ(-2, -2, -2), VQ(2, 2, 2)>>

Boxes == {UnitBox, <<VQ(-1, -2, -3), VQ(3, 1, 2)>>}

Queries ==
    { Query(Vec(ox, oy, oz), Vec(dx, dy, dz), b[1], b[2]) :
        ox \in OriginCoords, oy \in OriginCoords, oz \in OriginCoords,
        dx \in DirCoords, dy \in DirCoords, dz \in DirCoords, b \in Boxes }
    \cup
    { Query(VQ(0, 0, 20), Vec(Zero, Zero, Neg(One)), UnitBox[1], UnitBox[2]),
      Query(VQ(20, 0, 0), Vec(Neg(One), Zero, Zero), UnitBox[1], UnitBox[2]) }

InitIntersect ==
    /\ blocks = SetupBlocks
    /\ nextId = FirstCubeId + ChunkWidth * ChunkWidth
    /\ mouse = Released
    /\ phase = "input"
    /\ last = Idle
    /\ q \in Queries
    /\ res = Pending

Intersect ==
    /\ ~res.done
    /\ res' = [done |-> TRUE,
               r |-> ray_box_intersection(q.origin, q.direction, q.box_min, q.box_max)]
    /\ UNCHANGED <<blocks, nextId, mouse, phase, last, q>>

SpecIntersect == InitIntersect /\ [][Intersect]_vars

----------------------------------------------------------------------------
\* Properties of ray_box_intersection

Others(a) == Axes \ {a}

VEq(u, v) == Eq(u.x, v.x) /\ Eq(u.y, v.y) /\ Eq(u.z, v.z)

Le(a, b) == Lt(a, b) \/ Eq(a, b)

\* the unit vector of axis a scaled by sgn
AxisVec(a, sgn) == [b \in Axes |-> IF b = a THEN F(sgn * Unit) ELSE Zero]

IsZeroDir(d) == \A a \in Axes : IsZero(d[a])

\* the ray runs along axis a with sign sgn, from outside the box, towards it
AimedAt(a, sgn) ==
    /\ Eq(q.direction[a], F(sgn * Unit))
    /\ \A b \in Others(a) : IsZero(q.direction[b])
    /\ IF sgn = -1 THEN Gt(q.origin[a], q.box_max[a]) ELSE Lt(q.origin[a], q.box_min[a])

\* its line meets the face, edges and corners included
MeetsFace(a) ==
    \A b \in Others(a) : Le(q.box_min[b], q.origin[b]) /\ Le(q.origin[b], q.box_max[b])

\* its line meets the interior of the face
MeetsFaceInterior(a) ==
    \A b \in Others(a) : Lt(q.box_min[b], q.origin[b]) /\ Lt(q.origin[b], q.box_max[b])

HitsFace(a, sgn) ==
    /\ res.r.some
    /\ Gt(res.r.t, Zero)
    /\ VEq(res.r.normal, AxisVec(a, -sgn))

StrictlyInside ==
    \A a \in Axes : Lt(q.box_min[a], q.origin[a]) /\ Lt(q.origin[a], q.box_max[a])

\* C5: a ray with non-zero direction whose origin is strictly inside the box
\* gets no hit.
C5_InsideNoHit ==
    (res.done /\ StrictlyInside /\ ~IsZeroDir(q.direction)) => ~res.r.some

\* an origin strictly inside, two direction components zero, no hit
C5_Witness ==
    /\ res.done /\ StrictlyInside
    /\ Cardinality({a \in Axes : IsZero(q.direction[a])}) = 2
    /\ ~res.r.some

\* C8, as claimed: for a zero direction no hit with an infinite or NaN distance
\* is returned.
C8_ZeroDirNoSilentHit ==
    (res.done /\ IsZeroDir(q.direction)) => ~(res.r.some /\ ~IsFinite(res.r.t))

\* the slab of axis b as the reals have it: <<enter, exit>>
RealSlab(b) ==
    LET t1 == Div(Sub(q.box_min[b], q.origin[b]), q.direction[b])
        t2 == Div(Sub(q.box_max[b], q.origin[b]), q.direction[b])
    IN  IF Lt(t2, t1) THEN <<t2, t1>> ELSE <<t1, t2>>

InSlab(b) == Le(q.box_min[b], q.origin[b]) /\ Le(q.origin[b], q.box_max[b])

\* the greatest entry distance over the axes the ray moves along
EnterOf(moving) ==
    CHOOSE t \in {RealSlab(b)[1] : b \in moving} :
        \A b \in moving : Le(RealSlab(b)[1], t)

\* the least exit distance over the axes the ray moves along
ExitOf(moving) ==
    CHOOSE t \in {RealSlab(b)[2] : b \in moving} :
        \A b \in moving : Le(t, RealSlab(b)[2])

\* what the axes the ray moves along decide, when every parallel axis has the
\* origin within its slab: <<hit, t>>
ByMovingAxes ==
    LET moving == {b \in Axes : ~IsZero(q.direction[b])}
        enter == EnterOf(moving)
    IN  IF Le(enter, ExitOf(moving)) /\ Le(Zero, enter) THEN <<TRUE, enter>>
        ELSE <<FALSE, Zero>>

\* C9, as claimed: an axis the ray is parallel to imposes no constraint when
\* the origin is within its slab (boundary planes included), and rules out a
\* hit when the origin is outside it.
C9_ParallelAxis ==
    (res.done /\ ~IsZeroDir(q.direction)) =>
        LET parallel == {a \in Axes : IsZero(q.direction[a])}
        IN  IF \A a \in parallel : InSlab(a)
            THEN /\ res.r.some = ByMovingAxes[1]
                 /\ res.r.some => (IsFinite(res.r.t) /\ Eq(res.r.t, ByMovingAxes[2]))
            ELSE ~res.r.some

\* the same with the origin strictly between the planes of every parallel axis
\* or outside them (holds; kept to show the boundary is what fails)
ParallelAxisOffBoundary ==
    (res.done /\ ~IsZeroDir(q.direction)) =>
        LET parallel == {a \in Axes : IsZero(q.direction[a])}
        IN  (\A a \in parallel : ~Eq(q.origin[a], q.box_min[a]) /\ ~Eq(q.origin[a], q.box_max[a]))
            => IF \A a \in parallel : InSlab(a)
               THEN /\ res.r.some = ByMovingAxes[1]
                    /\ res.r.some => (IsFinite(res.r.t) /\ Eq(res.r.t, ByMovingAxes[2]))
               ELSE ~res.r.some

----------------------------------------------------------------------------
\* Properties of place_block, stated on the latest run: last.scanned is the
\* block collection it scanned, blocks the collection after it, and mouse the
\* button state it read

\* the run got past both early returns and scanned the blocks
ScanRan ==
    last.ran /\ mouse.just_pressed # {} /\ last.ray.some

LastDir == Normalize(last.ray.direction)

\* what ray_box_intersection answers for entity e and the latest ray
Probe(e) ==
    ray_box_intersection(last.ray.origin, LastDir,
                         VSub(e.pos, Splat(Half)), VAdd(e.pos, Splat(Half)))

InReach(e) == Probe(e).some /\ Lt(Probe(e).t, AsF32(MaxDistance))

EntityById(bs, id) == bs[CHOOSE j \in 1..Len(bs) : bs[j].id = id]

HasId(bs, id) == \E j \in 1..Len(bs) : bs[j].id = id

\* C1: the scan returns the hit of a block with the least t among the blocks
\* intersected with t < max_distance, and of the first such block in scan order
\* when several share that t.
C1_NearestFirstSeen ==
    ScanRan =>
        LET ents == Scanned(last.ray, last.scanned)
            cand == {i \in 1..Len(ents) : InReach(ents[i])}
        IN  IF cand = {} THEN ~last.hit.found
            ELSE \E i \in cand :
                   /\ \A j \in cand : Le(Probe(ents[i]).t, Probe(ents[j]).t)
                   /\ \A j \in cand : j < i => Lt(Probe(ents[i]).t, Probe(ents[j]).t)
                   /\ last.hit.found
                   /\ last.hit.entity = ents[i].id
                   /\ last.hit.distance = Probe(ents[i]).t
                   /\ last.hit.normal = Probe(ents[i]).normal

\* two blocks share the least t and the first of them in scan order is the hit
C1_Witness ==
    /\ ScanRan /\ last.hit.found
    /\ \E i, j \in 1..Len(last.scanned) :
         /\ i < j
         /\ last.hit.entity = last.scanned[i].id
         /\ InReach(last.scanned[j])
         /\ Eq(Probe(last.scanned[j]).t, last.hit.distance)

\* the centre is on the half-integer grid
OnGrid(pos) == \A a \in Axes : Eq(Abs(Fract(pos[a])), Half)

\* p is in the interior of the face of the unit cube at centre c whose outward
\* normal is sgn along axis a
InFaceInterior(p, c, a, sgn) ==
    /\ Eq(p[a], Add(c[a], F(sgn * (Unit \div 2))))
    /\ \A b \in Others(a) : Lt(Sub(c[b], Half), p[b]) /\ Lt(p[b], Add(c[b], Half))

\* the placed cube is the hit block's neighbour across each face in faces that
\* the hit point is in the interior of
PlacedAcross(signs) ==
    last.decision = "place" =>
        LET B == EntityById(last.scanned, last.hit.entity)
            N == EntityById(blocks, last.spawned)
        IN  \A a \in Axes, sgn \in signs :
               (OnGrid(B.pos) /\ InFaceInterior(last.hit.position, B.pos, a, sgn))
               => VEq(N.pos, VAdd(B.pos, AxisVec(a, sgn)))

\* C2, as claimed: on a place outcome with the hit point in the interior of any
\* of the six faces of a grid-aligned block, the new block's centre is the hit
\* block's centre moved one unit along the face normal.
C2_AdjacentToHitFace == PlacedAcross({-1, 1})

\* the same for the +x, +y and +z faces only (holds: the faces with a negative
\* normal are the ones that fail)
AdjacentToPositiveFace == PlacedAcross({1})

\* C3: one run makes at most one change: none without a just-pressed edge or
\* without a hit, one insert on a primary edge with a hit (also when both
\* edges fire), one delete of the hit block on a secondary edge alone.
C3_OneOutcome ==
    last.ran =>
        LET pre == last.scanned
            n == Len(pre)
        IN  IF mouse.just_pressed = {} \/ ~last.hit.found
            THEN blocks = pre
            ELSE IF "Left" \in mouse.just_pressed
            THEN /\ Len(blocks) = n + 1
                 /\ SubSeq(blocks, 1, n) = pre
                 /\ ~HasId(pre, blocks[n + 1].id)
            ELSE /\ Len(blocks) = n - 1
                 /\ {blocks[i] : i \in 1..(n - 1)} =
                        {pre[i] : i \in 1..n} \ {EntityById(pre, last.hit.entity)}

\* a button that is held, but not just pressed, with a ray that has a block
\* in reach: the run changed nothing
C3_Witness ==
    /\ last.ran /\ last.ray.some
    /\ mouse.pressed # {} /\ mouse.just_pressed = {}
    /\ \E i \in 1..Len(last.scanned) : InReach(last.scanned[i])
    /\ blocks = last.scanned

\* the nearest hit of the same ray over the block collection as it is now
Recast == FindNearestHit(last.ray.origin, LastDir, Scanned(last.ray, blocks))

\* C6, as claimed: after a place, the nearest hit of the re-cast ray is still
\* the block that was hit.
C6_RecastHitsOriginal ==
    last.decision = "place" => (Recast.found /\ Recast.entity = last.hit.entity)

\* C6, amended: after a place, the hit block is still there and still met at
\* the same distance, and the nearest hit of the re-cast ray is that block
\* unless the new block is met at a strictly smaller distance, and then it is
\* the new block.
C6_RecastOriginalOrNew ==
    last.decision = "place" =>
        /\ HasId(blocks, last.hit.entity)
        /\ EntityById(blocks, last.hit.entity) = EntityById(last.scanned, last.hit.entity)
        /\ Probe(EntityById(blocks, last.hit.entity)).t = last.hit.distance
        /\ Recast.found
        /\ \/ Recast.entity = last.hit.entity /\ Recast.distance = last.hit.distance
           \/ Recast.entity = last.spawned /\ Lt(Recast.distance, last.hit.distance)

\* a place after which the re-cast ray meets the new block first
C6_Witness ==
    /\ last.decision = "place"
    /\ Recast.entity = last.spawned
    /\ Lt(Recast.distance, last.hit.distance)

\* C7: a hit is always closer than max_distance, and when no block is met
\* closer than max_distance the run records no hit and changes nothing.
C7_StrictRadius ==
    /\ (last.ran /\ last.hit.found) => Lt(last.hit.distance, AsF32(MaxDistance))
    /\ (ScanRan /\ \A i \in 1..Len(last.scanned) : ~InReach(last.scanned[i]))
         => (~last.hit.found /\ last.decision = "no_hit" /\ blocks = last.scanned)

\* a block met at exactly max_distance, and no hit
C7_Witness ==
    /\ ScanRan
    /\ \E i \in 1..Len(last.scanned) :
         /\ Probe(last.scanned[i]).some
         /\ Eq(Probe(last.scanned[i]).t, AsF32(MaxDistance))
    /\ ~last.hit.found
    /\ blocks = last.scanned

\* C10, as claimed: no two cubes have the same centre.
C10_NoTwoCubesAtOneCell ==
    \A i, j \in 1..Len(blocks) :
        (i < j /\ blocks[i].name = "Cube" /\ blocks[j].name = "Cube")
        => ~VEq(blocks[i].pos, blocks[j].pos)

============================================================================
